---- MODULE Spec2Model ----
(***************************************************************************)
(* Model of the polling core of tgmonitor:                                 *)
(*   src/modules/instagram_api.py    InstagramAPI (Fetch Controller,       *)
(*                                   Transport Pool, identity cache)       *)
(*   src/modules/monitor_service.py  TelegramMonitorService (Monitor       *)
(*                                   Scheduler, recovery handling)         *)
(*                                                                         *)
(* The specifications share the operators that model fetch_profile:        *)
(*   SpecFetch  one direct call fetch_profile(username, retry_count,       *)
(*              max_retries) with every response sequence                  *)
(*              (FairSpecFetch: every sleep and every request ends);       *)
(*   Spec       the monitor service: tasks created by start_monitoring /   *)
(*              resume_all_monitoring, each running monitor_account, which *)
(*              calls fetch_profile(username) and _handle_account_recovery.*)
(* A step of a coroutine is the synchronous code between two suspension    *)
(* points (await of a sleep, of a network call, of a send).                *)
(*                                                                         *)
(* The transport pool and the identity cache are written by fetch_profile  *)
(* and download_profile_picture and read by nothing in monitor_account:    *)
(* SpecFetch records them, the task steps of Spec leave them as they are.  *)
(* The payload of a recovered account is taken to be shaped as the         *)
(* endpoint documents it (counts under edge_* are mappings).               *)
(***************************************************************************)
EXTENDS Integers, Sequences, FiniteSets, TLC

VARIABLES
    proxy_url,          \* InstagramAPI.proxy_url: None, Some("") or Some(url)
    generate_screenshots, \* config.generate_screenshots
    cred,               \* the session manager's current credential
    sessions,           \* InstagramAPI._sessions: impersonation keys holding a handle
    device_cache,       \* _device_cache: username -> cached device profile
    handles,            \* every AsyncSession created so far, by creation order
    closing,            \* the frame of a close() call (SpecPool)
    issued,             \* history: the profiles _build_device_profile returned,
                        \* per username, with the process run that returned them
    epoch,              \* history: process restarts so far (SpecIdentity)
    call,               \* the frame of a direct fetch_profile call (SpecFetch)
    backoff,            \* the back-off computed on entry of fetch_profile (SpecBackoff)
    download,           \* the frame of a download_profile_picture call (SpecDownload)
    fetchers,           \* the frames of concurrent fetch_profile calls (SpecCred)
    rotations,          \* history: rotate_session() calls so far (SpecCred)
    store,              \* data_manager: accounts listed as monitored
    active_monitors,    \* TelegramMonitorService.active_monitors: username -> task
    tasks,              \* every task created so far, by creation order
    recoveries,         \* history: recovery invocations per account since it was listed
    removed_by,         \* history: who last removed the account from the store
    last_op             \* history: the service operation that made the last step

vars == <<proxy_url, generate_screenshots, cred, sessions, device_cache, handles,
          closing, issued, epoch, call, backoff, download, fetchers, rotations,
          store, active_monitors, tasks, recoveries, removed_by, last_op>>

(***************************************************************************)
(* Bounds of the model.                                                    *)
(***************************************************************************)
MaxRetriesBound == 6    \* max_retries and retry_count of a direct call: 0..MaxRetriesBound
MaxTasks == 2           \* tasks created in one run of the service
NumCredentials == 2     \* credentials the session manager cycles through
MaxHandles == 3         \* AsyncSession objects created in one run of SpecPool
MaxRestarts == 1        \* process restarts in one run of SpecIdentity
DigestLen == 4          \* hex digits of a modelled digest
NumFetchers == 2        \* fetch_profile calls running concurrently in SpecCred

(***************************************************************************)
(* Values.                                                                 *)
(***************************************************************************)
None == <<>>
Some(x) == <<x>>

\* Usernames are sequences of characters, so that case folding is computed.
Names == {<<"a">>, <<"A">>, <<"b">>}
Accounts == {<<"a">>, <<"b">>}

LowerChar(c) == CASE c = "A" -> "a" [] c = "B" -> "b" [] OTHER -> c
Lower(s) == [i \in DOMAIN s |-> LowerChar(s[i])]

BROWSER_IMPERSONATIONS ==
    <<"chrome110", "chrome107", "chrome104", "chrome101", "chrome100", "chrome99">>

DEFAULT_MAX_RETRIES == 3

\* `base = min(300, (2 ** retry_count) * 30)`, `random.uniform(10, 30)`, in seconds
BACKOFF_CAP == 300
BACKOFF_UNIT == 30
JITTER_LOW == 10
JITTER_HIGH == 30

USER_AGENTS ==
    <<"Instagram 315.0.0.42.97", "Instagram 314.0.0.37.120",
      "Instagram 313.1.0.37.104", "Instagram 312.0.0.42.109",
      "Instagram 311.0.0.41.109">>

\* The usernames _build_device_profile is called with.
IdentityKeys == Names \cup {<<"a", "b">>, <<"b", "a">>}

ProxyValues == {None, Some(""), Some("http://proxy:8080")}

\* What the remote endpoint (or the transport) can answer to one request.
\* A 200 body is undecodable, or a document with or without a user record.
UserRecords == [username : Names, has_pic : BOOLEAN]
Bodies == {[json |-> FALSE, user |-> None]}
          \cup {[json |-> TRUE, user |-> None]}
          \cup {[json |-> TRUE, user |-> Some(u)] : u \in UserRecords}
OtherStatuses == {403, 500}
Responses ==
    {[kind |-> "http", status |-> 200, body |-> b] : b \in Bodies}
    \cup {[kind |-> "http", status |-> s, body |-> [json |-> FALSE, user |-> None]] :
            s \in {404, 429, 400, 401} \cup OtherStatuses}
    \cup {[kind |-> k, status |-> 0, body |-> [json |-> FALSE, user |-> None]] :
            k \in {"timeout", "error"}}

EmptyMap == [a \in {} |-> 0]

(***************************************************************************)
(* _build_device_profile. A text is the sequence of the codes of its       *)
(* characters (hex digits 0..15, "-" 16, upper-case letters above). A      *)
(* digest is modelled by a hash of DigestLen hex digits computed from the  *)
(* text and differing per algorithm; the truncations seed[:32], [:16] and  *)
(* [:20] keep the first half of a digest.                                  *)
(***************************************************************************)
CharCode(c) ==
    CASE c = "a" -> 10 [] c = "b" -> 11 [] c = "A" -> 17 [] c = "B" -> 18
      [] OTHER -> 19

\* username.encode()
Encode(s) == [i \in DOMAIN s |-> CharCode(s[i])]

RECURSIVE Fold(_, _)
Fold(text, acc) ==
    IF text = << >> THEN acc
    ELSE Fold(Tail(text), (acc * 7 + Head(text) + 1) % 16)

\* hashlib.<algorithm>(text).hexdigest(); salt tells the algorithms apart.
HexDigest(salt, text) == [i \in 1..DigestLen |-> Fold(text, salt + i)]
Sha256(text) == HexDigest(0, text)
Md5(text) == HexDigest(5, text)
Sha1(text) == HexDigest(9, text)

\* digest[:n], the first half of the digest
Truncated(digest) == SubSeq(digest, 1, DigestLen \div 2)

\* str(uuid.UUID(hex)): the hex digits in groups separated by "-"
UuidStr(hex) == <<Head(hex), 16>> \o Tail(hex)

\* random.Random(seed).randint(lo, hi): a function of the seed alone
SeededRandint(seed, lo, hi) == lo + (Fold(seed, 0) % (hi - lo + 1))

\* Mutant of DeriveProfile: the user agent is picked by the number of
\* profiles cached so far, not by the seed.
DeriveProfile_ByCallCount(username) ==
    LET seed == Sha256(Encode(username))
        device_id == UuidStr(Truncated(seed))
        ua_index == Cardinality(DOMAIN device_cache) % Len(USER_AGENTS)
    IN [device_id |-> device_id,
        android_id |-> <<"android-", Truncated(Md5(device_id))>>,
        mid |-> Truncated(Sha1(device_id)),
        user_agent |-> USER_AGENTS[ua_index + 1]]

\* The profile derived from the username: seed, device_id, ua_index,
\* android_id ("android-" + the digest prefix), mid.
DeriveProfile(username) ==
    LET seed == Sha256(Encode(username))
        device_id == UuidStr(Truncated(seed))
        ua_index == SeededRandint(seed, 0, Len(USER_AGENTS) - 1)
    IN [device_id |-> device_id,
        android_id |-> <<"android-", Truncated(Md5(device_id))>>,
        mid |-> Truncated(Sha1(device_id)),
        user_agent |-> USER_AGENTS[ua_index + 1]]

\* _build_device_profile(username): the cached profile if there is one, else
\* the derived profile, which is cached.
BuildDeviceProfile(cache, username) ==
    IF username \in DOMAIN cache
    THEN [profile |-> cache[username], cache |-> cache]
    ELSE LET profile == DeriveProfile(username) IN
         [profile |-> profile,
          cache |-> [u \in DOMAIN cache \cup {username} |->
                        IF u = username THEN profile ELSE cache[u]]]

(***************************************************************************)
(* InstagramAPI.fetch_profile, one attempt at a time.                      *)
(***************************************************************************)

\* Mutant of ProxyConfigured: only a missing proxy, not an empty one, fails fast.
ProxyConfigured_NoneOnly(p) == p # None

\* `if not self.proxy_url`
ProxyConfigured(p) == p # None /\ p[1] # ""

\* Where an attempt first suspends: the back-off sleep when retry_count > 0,
\* else the pacing sleep.
FetchEntry(retry_count) == IF retry_count > 0 THEN "backoff" ELSE "pacing"

RECURSIVE Pow2(_)
Pow2(n) == IF n = 0 THEN 1 ELSE 2 * Pow2(n - 1)

Min(x, y) == IF x <= y THEN x ELSE y

\* Mutant of BackoffBase: the cap is missing.
BackoffBase_Uncapped(retry_count) == Pow2(retry_count) * BACKOFF_UNIT

\* `base = min(300, (2 ** retry_count) * 30)`
BackoffBase(retry_count) == Min(BACKOFF_CAP, Pow2(retry_count) * BACKOFF_UNIT)

\* The whole seconds random.uniform(10, 30) can add.
Jitters == JITTER_LOW..(JITTER_HIGH - 1)

\* `delay = base + random.uniform(10, 30)`
BackoffDelay(retry_count, jitter) == BackoffBase(retry_count) + jitter

\* Mutant of Impersonation: the profile changes on every second attempt only.
Impersonation_EverySecond(retry_count) ==
    BROWSER_IMPERSONATIONS[((retry_count \div 2) % Len(BROWSER_IMPERSONATIONS)) + 1]

\* BROWSER_IMPERSONATIONS[retry_count % len(BROWSER_IMPERSONATIONS)]
Impersonation(retry_count) ==
    BROWSER_IMPERSONATIONS[(retry_count % Len(BROWSER_IMPERSONATIONS)) + 1]

\* _get_session: the pool after a lookup of `key` (created when absent).
GetSession(pool, key) == pool \cup {key}

\* Mutant of NewSession: every lookup creates a session, cached or not.
NewSession_AlwaysNew(hs, pool, key) ==
    Append(hs, [key |-> key, closed |-> FALSE, pooled |-> TRUE])

\* _get_session: the AsyncSession objects after a lookup of `key`; a new one
\* is open and held by the pool.
NewSession(hs, pool, key) ==
    IF key \in pool THEN hs
    ELSE Append(hs, [key |-> key, closed |-> FALSE, pooled |-> TRUE])

\* session_manager.rotate_session()
RotateSession(c) == (c + 1) % NumCredentials

\* `return status, data`
Return(status, data) ==
    [rotate |-> FALSE, next |-> "return", outcome |-> <<status, data>>]

\* Mutant of RetryOrGiveUp: off by one, retries while retry_count <= max_retries.
RetryOrGiveUp_OneMore(rotate, jitter, retry_count, max_retries, status) ==
    IF retry_count <= max_retries
    THEN [rotate |-> rotate,
          next |-> IF jitter THEN "authjitter" ELSE "recurse",
          outcome |-> <<None, None>>]
    ELSE [rotate |-> rotate, next |-> "return", outcome |-> <<status, None>>]

\* Mutant of RetryOrGiveUp: the credential is rotated only when a retry follows.
RetryOrGiveUp_RotateOnRetry(rotate, jitter, retry_count, max_retries, status) ==
    IF retry_count < max_retries
    THEN [rotate |-> rotate,
          next |-> IF jitter THEN "authjitter" ELSE "recurse",
          outcome |-> <<None, None>>]
    ELSE [rotate |-> FALSE, next |-> "return", outcome |-> <<status, None>>]

\* `if retry_count < max_retries: [sleep;] return await self.fetch_profile(...)`
\* `return status, None`, after an optional rotate_session().
RetryOrGiveUp(rotate, jitter, retry_count, max_retries, status) ==
    IF retry_count < max_retries
    THEN [rotate |-> rotate,
          next |-> IF jitter THEN "authjitter" ELSE "recurse",
          outcome |-> <<None, None>>]
    ELSE [rotate |-> rotate, next |-> "return", outcome |-> <<status, None>>]

\* Mutant of Classify200: the usernames are compared as they are, case included.
Classify200_CaseSensitive(username, body) ==
    IF ~body.json THEN Return(Some(200), None)
    ELSE IF body.user = None THEN Return(Some(200), None)
    ELSE IF body.user[1].username = username
         THEN Return(Some(200), Some(body))
         ELSE Return(Some(200), None)

\* Mutant of Classify200: any user record is returned, whatever its username.
Classify200_AnyUser(username, body) ==
    IF ~body.json THEN Return(Some(200), None)
    ELSE IF body.user = None THEN Return(Some(200), None)
    ELSE Return(Some(200), Some(body))

\* The 200 branch: decode, look for the user record, compare usernames.
Classify200(username, body) ==
    IF ~body.json THEN Return(Some(200), None)
    ELSE IF body.user = None THEN Return(Some(200), None)
    ELSE IF Lower(body.user[1].username) = Lower(username)
         THEN Return(Some(200), Some(body))
         ELSE Return(Some(200), None)

\* Mutant of FetchClassify: a 400/401 is handled as a 429, without the jitter.
FetchClassify_AuthNoJitter(username, retry_count, max_retries, r) ==
    IF r.kind = "http"
    THEN CASE r.status = 200 -> Classify200(username, r.body)
           [] r.status = 404 -> Return(Some(404), None)
           [] r.status \in {429, 400, 401} ->
                RetryOrGiveUp(TRUE, FALSE, retry_count, max_retries, Some(r.status))
           [] OTHER ->
                RetryOrGiveUp(FALSE, FALSE, retry_count, max_retries, Some(r.status))
    ELSE RetryOrGiveUp(FALSE, FALSE, retry_count, max_retries, None)

\* Mutant of FetchClassify: a transport failure rotates the credential.
FetchClassify_FailureRotates(username, retry_count, max_retries, r) ==
    IF r.kind = "http"
    THEN CASE r.status = 200 -> Classify200(username, r.body)
           [] r.status = 404 -> Return(Some(404), None)
           [] r.status = 429 ->
                RetryOrGiveUp(TRUE, FALSE, retry_count, max_retries, Some(429))
           [] r.status \in {400, 401} ->
                RetryOrGiveUp(TRUE, TRUE, retry_count, max_retries, Some(r.status))
           [] OTHER ->
                RetryOrGiveUp(FALSE, FALSE, retry_count, max_retries, Some(r.status))
    ELSE RetryOrGiveUp(TRUE, FALSE, retry_count, max_retries, None)

\* The classification of one response (or transport failure).
FetchClassify(username, retry_count, max_retries, r) ==
    IF r.kind = "http"
    THEN CASE r.status = 200 -> Classify200(username, r.body)
           [] r.status = 404 -> Return(Some(404), None)
           [] r.status = 429 ->
                RetryOrGiveUp(TRUE, FALSE, retry_count, max_retries, Some(429))
           [] r.status \in {400, 401} ->
                RetryOrGiveUp(TRUE, TRUE, retry_count, max_retries, Some(r.status))
           [] OTHER ->
                RetryOrGiveUp(FALSE, FALSE, retry_count, max_retries, Some(r.status))
    ELSE RetryOrGiveUp(FALSE, FALSE, retry_count, max_retries, None)

(***************************************************************************)
(* A direct call of fetch_profile: the frame and what the call has done.   *)
(*   first        the retry_count the call was entered with                *)
(*   reqs         network requests issued (session.get)                    *)
(*   rots         rotate_session() calls                                   *)
(*   cred_reads   get_current_session() calls                              *)
(*   created      transport handles created by _get_session                *)
(*   prof, prev_prof  impersonation of the last request and of the one     *)
(*                before it                                                *)
(*   sent_retry   retry_count of the attempt that sent the last request    *)
(*   last         the last response, rots_before the value of rots when it *)
(*                arrived                                                  *)
(*   all429       every response so far was a 429                          *)
(***************************************************************************)
IdleCall ==
    [pc |-> "idle", username |-> <<"a">>, first |-> 0, retry_count |-> 0,
     max_retries |-> 0, outcome |-> <<None, None>>, reqs |-> 0, rots |-> 0,
     cred_reads |-> 0, created |-> 0, prof |-> None, prev_prof |-> None,
     sent_retry |-> 0, last |-> None, rots_before |-> 0, all429 |-> TRUE]

NewCall(username, retry_count, max_retries) ==
    [IdleCall EXCEPT !.pc = FetchEntry(retry_count), !.username = username,
                     !.first = retry_count, !.retry_count = retry_count,
                     !.max_retries = max_retries]

\* fetch_profile has not been entered; no download_profile_picture call has
\* been made.
IdleBackoff == [pc |-> "idle", retry_count |-> 0, base |-> 0, delay |-> 0]
\* attempt: the loop variable; log: the requests sent ("direct", "proxy") and
\* the 1-second sleeps begun ("pause"), in order; answers: how the requests
\* ended, in order; result: the value returned.
IdleDownload ==
    [pc |-> "idle", attempt |-> 0, log |-> << >>, answers |-> << >>,
     result |-> None]

\* No close() call has been made.
IdleClose == [pc |-> "idle", cur |-> 0, todo |-> << >>, size |-> 0]

\* No service operation made the last step.
\* name: the operation; clear: its clear_database; store0, reg0, n0: the store,
\* the registered tasks and the number of tasks before it; task: the task whose
\* recovery handling ended or whose fetch_profile raised.
NoOp == [name |-> "none", clear |-> FALSE, store0 |-> {}, reg0 |-> {}, n0 |-> 0,
         task |-> 0]

\* The state of the service before any task or call exists.
InitService ==
    /\ proxy_url \in ProxyValues
    /\ generate_screenshots \in BOOLEAN
    /\ cred = 0
    /\ sessions = {}
    /\ device_cache = EmptyMap
    /\ handles = << >>
    /\ closing = IdleClose
    /\ issued = [k \in IdentityKeys |-> {}]
    /\ epoch = 0
    /\ backoff = IdleBackoff
    /\ download = IdleDownload
    /\ fetchers = << >>
    /\ rotations = 0
    /\ store = {}
    /\ active_monitors = EmptyMap
    /\ tasks = << >>
    /\ recoveries = [a \in Accounts |-> 0]
    /\ removed_by = [a \in Accounts |-> "nobody"]
    /\ last_op = NoOp

InitFetch ==
    /\ InitService
    /\ \E u \in Names, rc \in 0..MaxRetriesBound, mr \in 0..MaxRetriesBound :
          call = NewCall(u, rc, mr)

monitor_vars == <<store, active_monitors, tasks, recoveries, removed_by, last_op>>
identity_vars == <<issued, epoch>>
frame_vars == <<backoff, download, fetchers, rotations>>

\* `await asyncio.sleep(delay)` of the back-off ends.
CallBackoffDone ==
    /\ call.pc = "backoff"
    /\ call' = [call EXCEPT !.pc = "pacing"]
    /\ UNCHANGED <<proxy_url, generate_screenshots, cred, sessions, device_cache,
                   handles, closing, identity_vars, monitor_vars, frame_vars>>

\* The pacing sleep ends: fail fast without a proxy, else read the credential,
\* build the headers, look the handle up and send the request.
CallPacingDone ==
    /\ call.pc = "pacing"
    /\ IF ~ProxyConfigured(proxy_url)
       THEN /\ call' = [call EXCEPT !.pc = "returned", !.outcome = <<None, None>>]
            /\ UNCHANGED <<sessions, device_cache, handles>>
       ELSE LET key == Impersonation(call.retry_count) IN
            /\ call' = [call EXCEPT
                          !.pc = "request",
                          !.cred_reads = @ + 1,
                          !.created = @ + (IF key \in sessions THEN 0 ELSE 1),
                          !.prev_prof = call.prof,
                          !.prof = Some(key),
                          !.sent_retry = call.retry_count,
                          !.reqs = @ + 1]
            /\ sessions' = GetSession(sessions, key)
            /\ handles' = NewSession(handles, sessions, key)
            /\ device_cache' = BuildDeviceProfile(device_cache, call.username).cache
    /\ UNCHANGED <<proxy_url, generate_screenshots, cred, closing, identity_vars,
                   monitor_vars, frame_vars>>

\* The request ends with response r (or fails): classify, rotate, then
\* return, sleep the auth jitter, or enter the next attempt.
CallResponse(r) ==
    /\ call.pc = "request"
    /\ LET c == FetchClassify(call.username, call.retry_count, call.max_retries, r)
           seen == [call EXCEPT
                      !.last = Some(r),
                      !.rots_before = call.rots,
                      !.rots = @ + (IF c.rotate THEN 1 ELSE 0),
                      !.all429 = @ /\ r.kind = "http" /\ r.status = 429]
       IN
       /\ cred' = IF c.rotate THEN RotateSession(cred) ELSE cred
       /\ call' = CASE c.next = "return" ->
                         [seen EXCEPT !.pc = "returned", !.outcome = c.outcome]
                    [] c.next = "authjitter" ->
                         [seen EXCEPT !.pc = "authjitter"]
                    [] OTHER ->
                         [seen EXCEPT !.retry_count = @ + 1,
                                      !.pc = FetchEntry(call.retry_count + 1)]
    /\ UNCHANGED <<proxy_url, generate_screenshots, sessions, device_cache,
                   handles, closing, identity_vars, monitor_vars, frame_vars>>

\* The `[1,5)` sleep after a 400/401 ends: enter the next attempt.
CallAuthJitterDone ==
    /\ call.pc = "authjitter"
    /\ call' = [call EXCEPT !.retry_count = @ + 1,
                            !.pc = FetchEntry(call.retry_count + 1)]
    /\ UNCHANGED <<proxy_url, generate_screenshots, cred, sessions, device_cache,
                   handles, closing, identity_vars, monitor_vars, frame_vars>>

NextFetch ==
    \/ CallBackoffDone
    \/ CallPacingDone
    \/ \E r \in Responses : CallResponse(r)
    \/ CallAuthJitterDone

SpecFetch == InitFetch /\ [][NextFetch]_vars

\* Every sleep ends and every request ends (30 s timeout): a pending step of
\* the call is eventually taken.
FairSpecFetch == SpecFetch /\ WF_vars(NextFetch)

(***************************************************************************)
(* Claims about fetch_profile (SpecFetch, FairSpecFetch).                  *)
(***************************************************************************)
TopLevel == call.first = 0
Returned == call.pc = "returned"

\* C2: a top-level fetch_profile call issues at most max_retries + 1 network
\* requests, whatever the responses are, and the call returns.
C2_BoundedAttempts ==
    /\ [](TopLevel => call.reqs <= call.max_retries + 1)
    /\ <>Returned

C2_Witness ==
    /\ TopLevel /\ Returned
    /\ call.max_retries >= DEFAULT_MAX_RETRIES
    /\ call.reqs = call.max_retries + 1

Only429 == call.reqs > 0 /\ call.all429

\* C3 as claimed: a top-level call answered with 429 on every attempt has
\* called rotate_session() exactly max_retries times when it returns (429, None).
C3_AsClaimed ==
    (TopLevel /\ Returned /\ Only429)
        => (call.rots = call.max_retries /\ call.outcome = <<Some(429), None>>)

\* C3, amended: a top-level call answered with 429 on every attempt has called
\* rotate_session() once per response, max_retries + 1 times in all, and
\* returns (429, None).
C3_RotatesOnEvery429 ==
    /\ (TopLevel /\ Only429 /\ call.pc # "request") => call.rots = call.reqs
    /\ (TopLevel /\ Returned /\ Only429)
         => (call.rots = call.max_retries + 1 /\ call.outcome = <<Some(429), None>>)

C3_Witness ==
    /\ TopLevel /\ Returned /\ Only429
    /\ call.max_retries = DEFAULT_MAX_RETRIES
    /\ call.rots = DEFAULT_MAX_RETRIES + 1

\* Two usernames that differ at most in the case of their letters.
CasePairs == {<<"a", "A">>, <<"A", "a">>, <<"b", "B">>, <<"B", "b">>}
SameIgnoringCase(x, y) ==
    /\ Len(x) = Len(y)
    /\ \A i \in 1..Len(x) : x[i] = y[i] \/ <<x[i], y[i]>> \in CasePairs

\* What the claim says a 200 or 404 response r to a request for `username` yields.
Expected200or404(username, r) ==
    IF r.status = 404 THEN <<Some(404), None>>
    ELSE IF r.body.json /\ r.body.user # None
            /\ SameIgnoringCase(r.body.user[1].username, username)
         THEN <<Some(200), Some(r.body)>>
         ELSE <<Some(200), None>>

Final200or404 ==
    /\ call.last # None
    /\ call.last[1].kind = "http"
    /\ call.last[1].status \in {200, 404}

\* C4: a 200 with a user record of the requested username (case ignored)
\* returns (200, payload); a 200 with another username, without user record or
\* with an undecodable body returns (200, None); a 404 returns (404, None); in
\* each case the attempt is the last one and rotate_session() is not called.
C4_TerminalResponses ==
    Final200or404 =>
        /\ Returned
        /\ call.outcome = Expected200or404(call.username, call.last[1])
        /\ call.retry_count = call.sent_retry
        /\ call.rots = call.rots_before

C4_Witness ==
    /\ Final200or404 /\ Returned
    /\ call.outcome[2] # None
    /\ call.outcome[2][1].user[1].username # call.username
    /\ call.retry_count > 0

\* The profile the claim names for attempt n.
ProfileOfAttempt(n) ==
    CASE n % 6 = 0 -> "chrome110"
      [] n % 6 = 1 -> "chrome107"
      [] n % 6 = 2 -> "chrome104"
      [] n % 6 = 3 -> "chrome101"
      [] n % 6 = 4 -> "chrome100"
      [] n % 6 = 5 -> "chrome99"

\* C5: the request of attempt N goes through the handle of
\* profiles[N mod len(profiles)], and two consecutive attempts of a call never
\* use the same profile.
C5_ProfilePerAttempt ==
    call.prof # None =>
        /\ call.prof = Some(ProfileOfAttempt(call.sent_retry))
        /\ call.prof[1] \in sessions
        /\ call.prev_prof # call.prof
        /\ (call.pc = "request" => call.sent_retry = call.retry_count)

C5_Witness ==
    /\ TopLevel
    /\ call.pc = "request"
    /\ call.sent_retry = 6
    /\ call.prof = Some("chrome110")
    /\ call.prev_prof = Some("chrome99")

NoProxy == proxy_url \in {None, Some("")}

\* C6: without a forward proxy fetch_profile returns (None, None) and issues
\* no request, reads and rotates no credential, creates no handle and makes no
\* further attempt, whatever retry_count and max_retries are.
C6_NoProxyFailsFast ==
    NoProxy =>
        /\ call.reqs = 0 /\ call.cred_reads = 0 /\ call.rots = 0 /\ call.created = 0
        /\ sessions = {} /\ cred = 0 /\ device_cache = EmptyMap
        /\ call.retry_count = call.first
        /\ call.pc \in {"backoff", "pacing", "returned"}
        /\ (Returned => call.outcome = <<None, None>>)

C6_Witness ==
    /\ proxy_url = Some("")
    /\ Returned
    /\ call.first > 0
    /\ call.first < call.max_retries

AuthRejected(r) == r.kind = "http" /\ r.status \in {400, 401}

\* C16: a 400 or 401 response rotates the credential; then, if retry_count <
\* max_retries, the call sleeps the jitter and enters the next attempt with
\* retry_count + 1, else it returns (status, None) with the status of that
\* response.
C16_AuthRetry ==
    /\ [][\A r \in Responses :
            (AuthRejected(r) /\ CallResponse(r)) =>
                /\ call'.rots = call.rots + 1
                /\ cred' = RotateSession(cred)
                /\ call'.reqs = call.reqs
                /\ IF call.retry_count < call.max_retries
                   THEN /\ call'.pc = "authjitter"
                        /\ call'.retry_count = call.retry_count
                   ELSE /\ call'.pc = "returned"
                        /\ call'.outcome = <<Some(r.status), None>>]_vars
    /\ [][call.pc = "authjitter" =>
            /\ call'.retry_count = call.retry_count + 1
            /\ call'.pc = FetchEntry(call.retry_count + 1)
            /\ call'.rots = call.rots /\ cred' = cred]_vars

\* The call sleeps the jitter after a 401 that answered a retry.
C16_Witness ==
    /\ call.pc = "authjitter"
    /\ call.last # None /\ call.last[1].status = 401
    /\ call.retry_count > 0
    /\ call.rots = call.rots_before + 1

TransportFailure(r) == r.kind \in {"timeout", "error"}

\* The last attempt of the call failed at transport level or was answered
\* with a status that is neither 200 nor 404.
LastRetryable ==
    /\ call.last # None
    /\ (call.last[1].kind = "http" => call.last[1].status \notin {200, 404})

\* C17: a timeout or transport failure never rotates the credential and is
\* followed by the next attempt with retry_count + 1 while retry_count <
\* max_retries; a call that returns after such an attempt or after a retryable
\* status returns what its last attempt alone yields: (None, None) after a
\* transport failure, (status, None) after a status.
C17_TransportRetry ==
    /\ [][\A r \in Responses :
            (TransportFailure(r) /\ CallResponse(r)) =>
                /\ call'.rots = call.rots /\ cred' = cred
                /\ IF call.retry_count < call.max_retries
                   THEN /\ call'.retry_count = call.retry_count + 1
                        /\ call'.pc = FetchEntry(call.retry_count + 1)
                   ELSE /\ call'.pc = "returned"
                        /\ call'.outcome = <<None, None>>]_vars
    /\ []((Returned /\ LastRetryable) =>
            /\ call.sent_retry >= call.max_retries
            /\ call.outcome = IF TransportFailure(call.last[1])
                              THEN <<None, None>>
                              ELSE <<Some(call.last[1].status), None>>)

\* A top-level call whose earlier attempts were answered (and rotated the
\* credential) ends on a timeout.
C17_Witness ==
    /\ TopLevel /\ Returned
    /\ call.max_retries = DEFAULT_MAX_RETRIES
    /\ call.last # None /\ call.last[1].kind = "timeout"
    /\ call.rots > 0
    /\ call.outcome = <<None, None>>

(***************************************************************************)
(* TelegramMonitorService: the task registry and the tasks.                *)
(* A task is a run of monitor_account(username, chat_id):                  *)
(*   pc           where the coroutine is suspended ("created": not yet     *)
(*                run; "stopped", "recovered", "cancelled": ended)         *)
(*   retry_count  of the fetch_profile attempt in progress                 *)
(*   invoked      the task has called _handle_account_recovery             *)
(*   rm_calls     data_manager.remove_account calls made by its recovery   *)
(*                handling                                                 *)
(*   sends        send_message / send_file calls made by its recovery      *)
(*                handling, delivered: one of them succeeded               *)
(***************************************************************************)
FetchPcs == {"backoff", "pacing", "request", "authjitter"}
NotifyPcs == {"download", "render", "send_file", "text_ss", "fallback_ss",
              "send_text", "fallback"}
EndedPcs == {"stopped", "recovered", "cancelled"}

TaskIds == 1..Len(tasks)
Registered == {active_monitors[a] : a \in DOMAIN active_monitors}
Profiles == {BROWSER_IMPERSONATIONS[i] : i \in 1..Len(BROWSER_IMPERSONATIONS)}

NewTask(username) ==
    [username |-> username, pc |-> "created", retry_count |-> 0,
     invoked |-> FALSE, rm_calls |-> 0, sends |-> 0, delivered |-> FALSE]

\* active_monitors[username] = task
Put(reg, username, id) ==
    [a \in DOMAIN reg \cup {username} |-> IF a = username THEN id ELSE reg[a]]

\* active_monitors.pop(username, None)
Pop(reg, username) == [a \in DOMAIN reg \ {username} |-> reg[a]]

\* task.cancel(): CancelledError is thrown into the coroutine where it is
\* suspended; no handler of the task catches it (they catch Exception). A task
\* that has ended is left as it is.
Cancel(task) ==
    IF task.pc \in EndedPcs THEN task ELSE [task EXCEPT !.pc = "cancelled"]

\* Mutant of Launch: the task is created but not recorded in the registry.
Launch_Unregistered(st, username) ==
    [tasks |-> Append(st.tasks, NewTask(username)), reg |-> st.reg]

\* start_monitoring: create the task and record it under the username,
\* replacing whatever the registry held for it.
Launch(st, username) ==
    [tasks |-> Append(st.tasks, NewTask(username)),
     reg |-> Put(st.reg, username, Len(st.tasks) + 1)]

\* The accounts of a set in the order a dict iteration visits them.
RECURSIVE InOrder(_)
InOrder(S) ==
    IF S = {} THEN << >>
    ELSE LET a == CHOOSE x \in S : TRUE IN <<a>> \o InOrder(S \ {a})

RECURSIVE LaunchAll(_, _)
LaunchAll(st, names) ==
    IF names = << >> THEN st
    ELSE LaunchAll(Launch(st, Head(names)), Tail(names))

\* data_manager.remove_account(username) / clear_all(), with the history of
\* who removed a listed account.
Unlist(S, who) ==
    /\ store' = store \ S
    /\ recoveries' = [a \in Accounts |-> IF a \in S THEN 0 ELSE recoveries[a]]
    /\ removed_by' = [a \in Accounts |->
                        IF a \in S /\ a \in store THEN who ELSE removed_by[a]]

fetch_vars == <<proxy_url, generate_screenshots, cred, sessions, device_cache,
                handles, closing, issued, epoch, call, frame_vars>>

\* The backing store lists an account (the caller of start_monitoring adds it).
AddAccount(a) ==
    /\ a \notin store
    /\ store' = store \cup {a}
    /\ recoveries' = [recoveries EXCEPT ![a] = 0]
    /\ removed_by' = [removed_by EXCEPT ![a] = "nobody"]
    /\ last_op' = NoOp
    /\ UNCHANGED <<fetch_vars, active_monitors, tasks>>

StartMonitoring(username) ==
    /\ Len(tasks) < MaxTasks
    /\ LET st == Launch([tasks |-> tasks, reg |-> active_monitors], username) IN
       /\ tasks' = st.tasks
       /\ active_monitors' = st.reg
    /\ last_op' = NoOp
    /\ UNCHANGED <<fetch_vars, store, recoveries, removed_by>>

StopMonitoring(username) ==
    /\ Unlist({username}, "stop")
    /\ active_monitors' = Pop(active_monitors, username)
    /\ tasks' = [t \in TaskIds |->
                   IF username \in DOMAIN active_monitors
                      /\ t = active_monitors[username]
                   THEN Cancel(tasks[t]) ELSE tasks[t]]
    /\ last_op' = NoOp
    /\ UNCHANGED fetch_vars

\* Mutant of StopAllMonitoring: the database is cleared whatever the flag says.
StopAllMonitoring_AlwaysClear(clear_database) ==
    /\ active_monitors' = EmptyMap
    /\ tasks' = [t \in TaskIds |->
                   IF t \in Registered THEN Cancel(tasks[t]) ELSE tasks[t]]
    /\ Unlist(store, "stop")
    /\ last_op' = [name |-> "stop_all", clear |-> clear_database,
                   store0 |-> store, reg0 |-> Registered, n0 |-> Len(tasks),
                   task |-> 0]
    /\ UNCHANGED fetch_vars

StopAllMonitoring(clear_database) ==
    /\ active_monitors' = EmptyMap
    /\ tasks' = [t \in TaskIds |->
                   IF t \in Registered THEN Cancel(tasks[t]) ELSE tasks[t]]
    /\ IF clear_database
       THEN Unlist(store, "stop")
       ELSE UNCHANGED <<store, recoveries, removed_by>>
    /\ last_op' = [name |-> "stop_all", clear |-> clear_database,
                   store0 |-> store, reg0 |-> Registered, n0 |-> Len(tasks),
                   task |-> 0]
    /\ UNCHANGED fetch_vars

ResumeAllMonitoring ==
    /\ Len(tasks) + Cardinality(store) <= MaxTasks
    /\ LET st == LaunchAll([tasks |-> tasks, reg |-> active_monitors],
                           InOrder(store)) IN
       /\ tasks' = st.tasks
       /\ active_monitors' = st.reg
    /\ last_op' = [name |-> "resume", clear |-> FALSE,
                   store0 |-> store, reg0 |-> Registered, n0 |-> Len(tasks),
                   task |-> 0]
    /\ UNCHANGED <<fetch_vars, store, recoveries, removed_by>>

(***************************************************************************)
(* monitor_account and _handle_account_recovery, one step per suspension.  *)
(***************************************************************************)
registry_vars == <<store, active_monitors, recoveries, removed_by>>

SetTask(t, task) == tasks' = [tasks EXCEPT ![t] = task]

\* `data and isinstance(data, dict) and data.get("data", {}).get("user")`
IsRecovered(outcome) == outcome[2] # None /\ outcome[2][1].user # None

\* `if self.config.generate_screenshots and profile_pic_url`: the first
\* suspension of recovery handling.
RecoveryEntry(screenshots, user) ==
    IF screenshots /\ user.has_pic THEN "download" ELSE "send_text"

\* How the awaited call of a recovery step can end.
Results(pc) ==
    CASE pc = "download" -> {"bytes", "none"}
      [] pc = "render" -> {"bytes", "none", "raise"}
      [] OTHER -> {"ok", "raise"}

\* Mutant of NotifyNext: a failed fallback send leaves recovery handling
\* through the exception, so the removal is skipped.
NotifyNext_FallbackEscapes(pc, res) ==
    CASE pc = "download" -> IF res = "bytes" THEN "render" ELSE "text_ss"
      [] pc = "render" ->
           IF res = "bytes" THEN "send_file"
           ELSE IF res = "none" THEN "text_ss" ELSE "fallback_ss"
      [] pc \in {"send_file", "text_ss"} ->
           IF res = "ok" THEN "remove" ELSE "fallback_ss"
      [] pc = "send_text" -> IF res = "ok" THEN "remove" ELSE "fallback"
      [] OTHER -> IF res = "ok" THEN "remove" ELSE "raised"

\* Mutant of NotifyNext: the first text-only send of _handle_account_recovery
\* is made outside the try block, so its failure leaves recovery handling.
NotifyNext_TextEscapes(pc, res) ==
    CASE pc = "download" -> IF res = "bytes" THEN "render" ELSE "text_ss"
      [] pc = "render" ->
           IF res = "bytes" THEN "send_file"
           ELSE IF res = "none" THEN "text_ss" ELSE "fallback_ss"
      [] pc \in {"send_file", "text_ss"} ->
           IF res = "ok" THEN "remove" ELSE "fallback_ss"
      [] pc = "send_text" -> IF res = "ok" THEN "remove" ELSE "raised"
      [] OTHER -> "remove"

\* The step of recovery handling after the awaited call of `pc` ended with
\* `res`: the next awaited call, or "remove" when the notification attempt is
\* over (_send_with_screenshot returned, or a send of _handle_account_recovery
\* ended) and remove_account / active_monitors.pop follow.
NotifyNext(pc, res) ==
    CASE pc = "download" -> IF res = "bytes" THEN "render" ELSE "text_ss"
      [] pc = "render" ->
           IF res = "bytes" THEN "send_file"
           ELSE IF res = "none" THEN "text_ss" ELSE "fallback_ss"
      [] pc \in {"send_file", "text_ss"} ->
           IF res = "ok" THEN "remove" ELSE "fallback_ss"
      [] pc = "send_text" -> IF res = "ok" THEN "remove" ELSE "fallback"
      [] OTHER -> "remove"

SendPcs == {"send_file", "text_ss", "fallback_ss", "send_text", "fallback"}

\* fetch_profile returned `outcome` to monitor_account: recovery handling
\* starts when the payload holds a user record, else the task sleeps
\* check_interval.
AfterFetch(t, outcome) ==
    LET task == tasks[t]
        a == task.username
    IN
    IF IsRecovered(outcome)
    THEN LET entry == RecoveryEntry(generate_screenshots, outcome[2][1].user[1]) IN
         /\ SetTask(t, [task EXCEPT !.pc = entry, !.invoked = TRUE,
                          !.sends = IF entry \in SendPcs THEN 1 ELSE 0])
         /\ recoveries' = [recoveries EXCEPT
                             ![a] = IF a \in store THEN @ + 1 ELSE @]
    ELSE /\ SetTask(t, [task EXCEPT !.pc = "sleeping"])
         /\ UNCHANGED recoveries

\* `while self.data_manager.is_monitoring(username)`: evaluated when the task
\* first runs and after every sleep; the body calls fetch_profile(username).
MonitorLoop(t) ==
    /\ tasks[t].pc \in {"created", "sleeping"}
    /\ SetTask(t, IF tasks[t].username \in store
                  THEN [tasks[t] EXCEPT !.pc = FetchEntry(0), !.retry_count = 0]
                  ELSE [tasks[t] EXCEPT !.pc = "stopped"])
    /\ last_op' = NoOp
    /\ UNCHANGED <<fetch_vars, registry_vars>>

TaskBackoffDone(t) ==
    /\ tasks[t].pc = "backoff"
    /\ SetTask(t, [tasks[t] EXCEPT !.pc = "pacing"])
    /\ last_op' = NoOp
    /\ UNCHANGED <<fetch_vars, registry_vars>>

\* The pacing sleep of the task's fetch_profile ends.
TaskPacingDone(t) ==
    /\ tasks[t].pc = "pacing"
    /\ IF ~ProxyConfigured(proxy_url)
       THEN AfterFetch(t, <<None, None>>)
       ELSE /\ SetTask(t, [tasks[t] EXCEPT !.pc = "request"])
            /\ UNCHANGED recoveries
    /\ last_op' = NoOp
    /\ UNCHANGED <<fetch_vars, store, active_monitors, removed_by>>

\* Mutant of TaskFetchRaises: monitor_account has no handler, the exception
\* ends the task.
TaskFetchRaises_Ends(t) ==
    /\ tasks[t].pc = "pacing"
    /\ ProxyConfigured(proxy_url)
    /\ SetTask(t, [tasks[t] EXCEPT !.pc = "failed"])
    /\ last_op' = [NoOp EXCEPT !.name = "fetch_raised", !.task = t]
    /\ UNCHANGED <<fetch_vars, registry_vars>>

\* An exception leaves fetch_profile (a collaborator called outside its try
\* block fails): monitor_account logs it, sleeps check_interval and continues.
TaskFetchRaises(t) ==
    /\ tasks[t].pc = "pacing"
    /\ ProxyConfigured(proxy_url)
    /\ SetTask(t, [tasks[t] EXCEPT !.pc = "sleeping"])
    /\ last_op' = [NoOp EXCEPT !.name = "fetch_raised", !.task = t]
    /\ UNCHANGED <<fetch_vars, registry_vars>>

\* The request of the task's fetch_profile ends with response r.
TaskResponse(t, r) ==
    /\ tasks[t].pc = "request"
    /\ LET task == tasks[t]
           c == FetchClassify(task.username, task.retry_count,
                              DEFAULT_MAX_RETRIES, r)
       IN
       /\ cred' = IF c.rotate THEN RotateSession(cred) ELSE cred
       /\ CASE c.next = "return" -> AfterFetch(t, c.outcome)
            [] c.next = "authjitter" ->
                 /\ SetTask(t, [task EXCEPT !.pc = "authjitter"])
                 /\ UNCHANGED recoveries
            [] OTHER ->
                 /\ SetTask(t, [task EXCEPT !.retry_count = @ + 1,
                                  !.pc = FetchEntry(task.retry_count + 1)])
                 /\ UNCHANGED recoveries
    /\ last_op' = NoOp
    /\ UNCHANGED <<proxy_url, generate_screenshots, sessions, device_cache, handles,
                   closing, issued, epoch, call, frame_vars, store, active_monitors,
                   removed_by>>

TaskAuthJitterDone(t) ==
    /\ tasks[t].pc = "authjitter"
    /\ SetTask(t, [tasks[t] EXCEPT !.retry_count = @ + 1,
                     !.pc = FetchEntry(tasks[t].retry_count + 1)])
    /\ last_op' = NoOp
    /\ UNCHANGED <<fetch_vars, registry_vars>>

\* The awaited call of a recovery step ends with `res`: go to the next call,
\* or remove the account from the store and the registry and end the task.
NotifyDone(t, res) ==
    /\ tasks[t].pc \in NotifyPcs
    /\ res \in Results(tasks[t].pc)
    /\ LET task == tasks[t]
           next == NotifyNext(task.pc, res)
           seen == [task EXCEPT
                      !.delivered = @ \/ (task.pc \in SendPcs /\ res = "ok")]
       IN
       CASE next = "remove" ->
              /\ Unlist({task.username}, "recovery")
              /\ active_monitors' = Pop(active_monitors, task.username)
              /\ SetTask(t, [seen EXCEPT !.pc = "recovered", !.rm_calls = @ + 1])
              /\ last_op' = [NoOp EXCEPT !.name = "recovered", !.task = t]
         [] next = "raised" ->     \* an exception leaves recovery handling
              /\ SetTask(t, [seen EXCEPT !.pc = "failed"])
              /\ last_op' = NoOp
              /\ UNCHANGED registry_vars
         [] OTHER ->
              /\ SetTask(t, [seen EXCEPT !.pc = next,
                               !.sends = @ + (IF next \in SendPcs THEN 1 ELSE 0)])
              /\ last_op' = NoOp
              /\ UNCHANGED registry_vars
    /\ UNCHANGED fetch_vars

Init ==
    /\ InitService
    /\ call = IdleCall

Next ==
    \/ \E a \in Accounts : AddAccount(a)
    \/ \E a \in Accounts : StartMonitoring(a)
    \/ \E a \in Accounts : StopMonitoring(a)
    \/ \E c \in BOOLEAN : StopAllMonitoring(c)
    \/ ResumeAllMonitoring
    \/ \E t \in TaskIds : MonitorLoop(t)
    \/ \E t \in TaskIds : TaskBackoffDone(t)
    \/ \E t \in TaskIds : TaskPacingDone(t)
    \/ \E t \in TaskIds : TaskFetchRaises(t)
    \/ \E t \in TaskIds, r \in Responses : TaskResponse(t, r)
    \/ \E t \in TaskIds : TaskAuthJitterDone(t)
    \/ \E t \in TaskIds, res \in {"bytes", "none", "ok", "raise"} : NotifyDone(t, res)

Spec == Init /\ [][Next]_vars

(***************************************************************************)
(* The transport pool: _get_session lookups made by running fetches and    *)
(* downloads, interleaved with a close() call. close() iterates            *)
(* self._sessions.values() and suspends at every `await session.close()`;  *)
(* the dict iterator raises RuntimeError at its next step when the dict    *)
(* has changed size since the iteration began.                             *)
(***************************************************************************)
\* The sessions the pool holds, in the order the dict iterates them.
PooledIds ==
    SelectSeq([i \in 1..Len(handles) |-> i], LAMBDA i : handles[i].pooled)

\* A running fetch_profile or download_profile_picture calls _get_session.
Lookup(key) ==
    /\ key \in sessions \/ Len(handles) < MaxHandles
    /\ sessions' = GetSession(sessions, key)
    /\ handles' = NewSession(handles, sessions, key)
    /\ UNCHANGED <<proxy_url, generate_screenshots, cred, device_cache, closing,
                   identity_vars, call, monitor_vars, frame_vars>>

\* close() is called: the iteration begins and suspends closing the first
\* session, or, over an empty pool, falls through to self._sessions.clear().
CloseStart ==
    /\ closing.pc \in {"idle", "done", "raised"}
    /\ IF PooledIds = << >>
       THEN closing' = [IdleClose EXCEPT !.pc = "done"]
       ELSE closing' = [pc |-> "closing", cur |-> Head(PooledIds),
                        todo |-> Tail(PooledIds), size |-> Len(PooledIds)]
    /\ UNCHANGED <<proxy_url, generate_screenshots, cred, sessions, device_cache,
                   handles, identity_vars, call, monitor_vars, frame_vars>>

\* `await session.close()` ends: the iterator steps (raising if the pool has
\* changed size), and after the last session the pool is cleared.
CloseStep ==
    /\ closing.pc = "closing"
    /\ LET closed == [handles EXCEPT ![closing.cur].closed = TRUE] IN
       IF Cardinality(sessions) # closing.size
       THEN /\ handles' = closed
            /\ closing' = [closing EXCEPT !.pc = "raised"]
            /\ UNCHANGED sessions
       ELSE IF closing.todo = << >>
       THEN /\ handles' = [i \in DOMAIN closed |-> [closed[i] EXCEPT !.pooled = FALSE]]
            /\ sessions' = {}
            /\ closing' = [IdleClose EXCEPT !.pc = "done"]
       ELSE /\ handles' = closed
            /\ closing' = [closing EXCEPT !.cur = Head(closing.todo),
                                          !.todo = Tail(closing.todo)]
            /\ UNCHANGED sessions
    /\ UNCHANGED <<proxy_url, generate_screenshots, cred, device_cache,
                   identity_vars, call, monitor_vars, frame_vars>>

NextPool ==
    \/ \E key \in Profiles : Lookup(key)
    \/ CloseStart
    \/ CloseStep

SpecPool == Init /\ [][NextPool]_vars

(***************************************************************************)
(* The identity cache: _build_device_profile calls for any usernames in    *)
(* any order, and process restarts, which empty the module-level cache.    *)
(***************************************************************************)
IdentityFor(username) ==
    /\ LET built == BuildDeviceProfile(device_cache, username) IN
       /\ device_cache' = built.cache
       /\ issued' = [issued EXCEPT ![username] = @ \cup {<<epoch, built.profile>>}]
    /\ UNCHANGED <<proxy_url, generate_screenshots, cred, sessions, handles,
                   closing, epoch, call, monitor_vars, frame_vars>>

\* The process is restarted: _device_cache is the empty dict again.
Restart ==
    /\ epoch < MaxRestarts
    /\ epoch' = epoch + 1
    /\ device_cache' = EmptyMap
    /\ UNCHANGED <<proxy_url, generate_screenshots, cred, sessions, handles,
                   closing, issued, call, monitor_vars, frame_vars>>

NextIdentity ==
    \/ \E username \in IdentityKeys : IdentityFor(username)
    \/ Restart

SpecIdentity == Init /\ [][NextIdentity]_vars

(***************************************************************************)
(* Claims about the pool (SpecPool) and the identity cache (SpecIdentity). *)
(***************************************************************************)

\* C13 as claimed: close() succeeds (on an empty pool too, and when called
\* again), and when it completes the pool is empty and every session created
\* so far is closed, the sessions that lookups created while close() was
\* suspended included.
C13_AsClaimed ==
    [][(CloseStart \/ CloseStep) =>
          /\ closing'.pc # "raised"
          /\ closing'.pc = "done" =>
                /\ sessions' = {}
                /\ \A i \in 1..Len(handles') : handles'[i].closed]_vars

\* The sessions the pool holds for an impersonation profile.
HeldFor(hs, key) == {i \in 1..Len(hs) : hs[i].pooled /\ hs[i].key = key}

\* The step in which close() reaches self._sessions.clear().
PoolCleared == CloseStep /\ closing'.pc = "done"

\* C22: the pool holds at most one session per impersonation profile (one
\* exactly for a profile that has been looked up since the pool was last
\* cleared); a lookup of a profile the pool does not hold creates one session,
\* a lookup of a profile it holds returns the session held and creates none;
\* and no step other than the clear of close() removes or replaces a session
\* of the pool, whatever the interleaving of lookups and close() steps.
C22_OneSessionPerProfile ==
    /\ [](\A key \in Profiles :
            Cardinality(HeldFor(handles, key)) = IF key \in sessions THEN 1 ELSE 0)
    /\ [][/\ \A key \in Profiles :
                 (Lookup(key) =>
                    IF key \in sessions
                    THEN /\ handles' = handles
                         /\ HeldFor(handles', key) = HeldFor(handles, key)
                    ELSE /\ HeldFor(handles, key) = {}
                         /\ HeldFor(handles', key) = {Len(handles) + 1}
                         /\ ~handles'[Len(handles) + 1].closed)
           /\ ~PoolCleared =>
                 (\A p \in Profiles :
                    HeldFor(handles, p) \subseteq HeldFor(handles', p))]_vars

\* After a completed close() the profile of a closed, dropped session has
\* been looked up again and a second profile as well: the pool holds one new
\* session for each.
C22_Witness ==
    /\ closing.pc = "done"
    /\ \E i, j, k \in 1..Len(handles) :
          /\ ~handles[i].pooled /\ handles[i].closed
          /\ handles[j].pooled /\ handles[j].key = handles[i].key
          /\ handles[k].pooled /\ handles[k].key # handles[j].key

ProfilesOf(k) == {p[2] : p \in issued[k]}
EpochsOf(k) == {p[1] : p \in issued[k]}

\* C15: every call of _build_device_profile for a username returns the same
\* profile, whatever calls came before it and whether or not a restart emptied
\* the cache in between; a cache entry, once added, is neither changed nor
\* removed while the process runs.
C15_StableIdentity ==
    /\ [](\A k \in IdentityKeys :
            /\ Cardinality(ProfilesOf(k)) <= 1
            /\ k \in DOMAIN device_cache => <<epoch, device_cache[k]>> \in issued[k])
    /\ [][Restart \/ \A k \in DOMAIN device_cache :
                        /\ k \in DOMAIN device_cache'
                        /\ device_cache'[k] = device_cache[k]]_vars

\* A profile was returned before and after a restart, with other usernames
\* served first after the restart.
C15_Witness ==
    \E k \in IdentityKeys :
        /\ EpochsOf(k) = {0, 1}
        /\ DOMAIN device_cache = IdentityKeys
        /\ \E j \in IdentityKeys : EpochsOf(j) = {1}

(***************************************************************************)
(* Claims about the monitor service (Spec).                                *)
(***************************************************************************)
PollPcs == FetchPcs \cup {"created", "sleeping"}

\* C1 as claimed: recovery handling is invoked at most once for an account
\* between its listing in the store and its removal, and a task that has
\* invoked recovery handling never polls again.
C1_AsClaimed ==
    /\ \A a \in Accounts : recoveries[a] <= 1
    /\ \A t \in TaskIds : tasks[t].invoked => tasks[t].pc \notin PollPcs

\* C7: an invocation of recovery handling that runs to its end has called
\* remove_account exactly once, not before its notification attempt was over,
\* and leaves the account out of the store and of the registry, whether the
\* download, the render and the sends succeeded or failed.
C7_RemovesOnce ==
    /\ \A t \in TaskIds :
         /\ tasks[t].pc \in NotifyPcs => (tasks[t].invoked /\ tasks[t].rm_calls = 0)
         /\ tasks[t].pc = "recovered" => tasks[t].rm_calls = 1
         /\ tasks[t].invoked =>
              tasks[t].pc \in NotifyPcs \cup {"recovered", "cancelled"}
    /\ last_op.name = "recovered" =>
         /\ tasks[last_op.task].pc = "recovered"
         /\ tasks[last_op.task].username \notin store
         /\ tasks[last_op.task].username \notin DOMAIN active_monitors

\* Every send of the screenshot path failed: file, then the fallback text.
C7_Witness ==
    /\ last_op.name = "recovered"
    /\ tasks[last_op.task].sends = 2
    /\ ~tasks[last_op.task].delivered
    /\ generate_screenshots

\* C8 as claimed: no account is absent from the store because of recovery
\* handling while a notification for it is still pending.
C8_AsClaimed ==
    \A a \in Accounts :
        (a \notin store /\ removed_by[a] = "recovery")
            => \A t \in TaskIds :
                 tasks[t].username = a => tasks[t].pc \notin NotifyPcs

\* C9: stop_all_monitoring empties the registry and leaves no task that was
\* registered running; with clear_database=False the store is as it was, with
\* clear_database=True it is empty.
C9_StopAll ==
    last_op.name = "stop_all" =>
        /\ active_monitors = EmptyMap
        /\ \A t \in last_op.reg0 : tasks[t].pc \in EndedPcs
        /\ (~last_op.clear => store = last_op.store0)
        /\ (last_op.clear => store = {})

C9_Witness ==
    /\ last_op.name = "stop_all"
    /\ ~last_op.clear
    /\ store = Accounts
    /\ Cardinality(last_op.reg0) = 2
    /\ \A t \in last_op.reg0 : tasks[t].pc = "cancelled"

\* The tasks the last operation created.
Created == (last_op.n0 + 1)..Len(tasks)

\* C10: resume_all_monitoring creates exactly one task for each account the
\* store lists, registered under the account's name, and none for an account
\* the store does not list.
C10_Resume ==
    last_op.name = "resume" =>
        \A a \in Accounts :
            LET mine == {t \in Created : tasks[t].username = a} IN
            IF a \in last_op.store0
            THEN /\ Cardinality(mine) = 1
                 /\ a \in DOMAIN active_monitors
                 /\ active_monitors[a] \in mine
                 /\ tasks[active_monitors[a]].pc = "created"
            ELSE mine = {}

C10_Witness ==
    /\ last_op.name = "resume"
    /\ Cardinality(last_op.store0) = 1
    /\ Cardinality(Created) = 1
    /\ last_op.n0 = 1

\* The tasks of an account that have not ended.
Live(a) == {t \in TaskIds : tasks[t].username = a /\ tasks[t].pc \notin EndedPcs}

\* C11 as claimed: in every state, for every account, at most one monitor task
\* that has not ended exists, whatever start_monitoring, stop_monitoring,
\* stop_all_monitoring and resume_all_monitoring calls were made.
C11_AsClaimed == \A a \in Accounts : Cardinality(Live(a)) <= 1

\* A network request or a step of the notification is in flight.
InFlightPcs == {"request"} \cup NotifyPcs

\* C12 as claimed: a step of stop_monitoring(a) leaves a out of the store and
\* of the registry and leaves no task with a network request or a notification
\* step in flight on behalf of a: every such task is cancelled where it is
\* suspended, its request abandoned.
C12_AsClaimed ==
    [][\A a \in Accounts :
          StopMonitoring(a) =>
              /\ a \notin store'
              /\ a \notin DOMAIN active_monitors'
              /\ \A t \in TaskIds :
                    tasks'[t].username = a => tasks'[t].pc \notin InFlightPcs]_vars

\* The accounts other than a are as they were: their tasks, their listing in
\* the store and their registry entries.
OthersUntouched(a) ==
    /\ \A u \in TaskIds : tasks[u].username # a => tasks'[u] = tasks[u]
    /\ store' \ {a} = store \ {a}
    /\ \A b \in Accounts \ {a} :
          /\ (b \in DOMAIN active_monitors') = (b \in DOMAIN active_monitors)
          /\ b \in DOMAIN active_monitors => active_monitors'[b] = active_monitors[b]

\* C14: however the awaited download, render or send of a recovery step ends,
\* the task stays in recovery handling or ends recovered (no exception leaves
\* it), and the tasks, store entries and registry entries of the other
\* accounts are untouched.
C14_FailuresContained ==
    [][\A t \in TaskIds, res \in {"bytes", "none", "ok", "raise"} :
          NotifyDone(t, res) =>
              /\ tasks'[t].pc \in NotifyPcs \cup {"recovered"}
              /\ tasks'[t].pc = "recovered" => tasks'[t].username \notin store'
              /\ OthersUntouched(tasks[t].username)]_vars

\* A recovery whose sends all failed has ended while a task of the other
\* account is in the middle of a request.
C14_Witness ==
    \E t \in TaskIds, u \in TaskIds :
        /\ tasks[t].pc = "recovered" /\ ~tasks[t].delivered /\ tasks[t].sends >= 1
        /\ tasks[u].username # tasks[t].username
        /\ tasks[u].pc = "request"

\* The awaited calls that send a text-only message.
TextPcs == {"text_ss", "send_text", "fallback_ss", "fallback"}

\* C18 as claimed: when a text-only send of recovery handling fails, no
\* further send is attempted, whether the send was the fallback of the
\* screenshot path or the first send.
C18_AsClaimed ==
    [][\A t \in TaskIds :
          (tasks[t].pc \in TextPcs /\ NotifyDone(t, "raise"))
              => tasks'[t].sends = tasks[t].sends]_vars

\* Response r is a 200 whose user record carries the requested username.
Match200(username, r) ==
    /\ r.kind = "http" /\ r.status = 200
    /\ r.body.json /\ r.body.user # None
    /\ SameIgnoringCase(r.body.user[1].username, username)

\* C19: a task enters recovery handling only in the step that ends a request,
\* and only when every response that step can be the answer to is a 200 with
\* the user record of the requested username; a step of its fetch that does
\* not enter recovery handling (any other response, a missing proxy, an
\* exception) leaves the store as it is; only a task in recovery handling
\* removes its account.
C19_RecoveryOnlyOnPayload ==
    [][\A t \in TaskIds :
          \/ tasks'[t] = tasks[t]
          \/ /\ (tasks'[t].invoked /\ ~tasks[t].invoked) =>
                   /\ tasks[t].pc = "request"
                   /\ \E r \in Responses : TaskResponse(t, r)
                   /\ \A r \in Responses :
                         TaskResponse(t, r) => Match200(tasks[t].username, r)
             /\ (tasks[t].pc \in PollPcs /\ ~tasks'[t].invoked
                    /\ tasks'[t].pc # "cancelled") =>
                   /\ tasks'[t].pc \notin NotifyPcs
                   /\ store' = store
             /\ tasks'[t].rm_calls # tasks[t].rm_calls => tasks[t].invoked]_vars

\* A task of a is in recovery handling after its request was retried.
C19_Witness ==
    \E t \in TaskIds :
        /\ tasks[t].pc \in {"download", "send_text"}
        /\ tasks[t].invoked
        /\ tasks[t].retry_count > 0

\* C20: when fetch_profile raises inside a monitor task, the task neither ends
\* nor enters recovery handling: it sleeps check_interval, and after the sleep
\* it polls again if the store lists the account.
C20_FetchFailureKeepsPolling ==
    /\ [][\A t \in TaskIds :
            TaskFetchRaises(t) =>
                /\ tasks'[t].pc = "sleeping"
                /\ ~tasks'[t].invoked
                /\ store' = store /\ active_monitors' = active_monitors]_vars
    /\ [][\A t \in TaskIds :
            (tasks[t].pc = "sleeping" /\ MonitorLoop(t)) =>
                tasks'[t].pc = IF tasks[t].username \in store
                               THEN "pacing" ELSE "stopped"]_vars

\* The fetch of a task whose account is listed has just raised.
C20_Witness ==
    /\ last_op.name = "fetch_raised"
    /\ tasks[last_op.task].pc = "sleeping"
    /\ tasks[last_op.task].username \in store

(***************************************************************************)
(* The back-off of fetch_profile: the call is entered with any retry_count *)
(* and any jitter, computes the delay and sleeps it.                       *)
(***************************************************************************)
\* fetch_profile is entered: `if retry_count > 0` the delay is computed and
\* the sleep begins, else the call goes on to the pacing sleep.
BackoffEnter(retry_count, jitter) ==
    /\ backoff.pc = "idle"
    /\ backoff' = IF FetchEntry(retry_count) = "backoff"
                  THEN [pc |-> "sleeping", retry_count |-> retry_count,
                        base |-> BackoffBase(retry_count),
                        delay |-> BackoffDelay(retry_count, jitter)]
                  ELSE [IdleBackoff EXCEPT !.pc = "pacing"]
    /\ UNCHANGED <<proxy_url, generate_screenshots, cred, sessions, device_cache,
                   handles, closing, identity_vars, call, download, fetchers,
                   rotations, monitor_vars>>

\* `await asyncio.sleep(delay)` ends.
BackoffSleepDone ==
    /\ backoff.pc = "sleeping"
    /\ backoff' = [backoff EXCEPT !.pc = "pacing"]
    /\ UNCHANGED <<proxy_url, generate_screenshots, cred, sessions, device_cache,
                   handles, closing, identity_vars, call, download, fetchers,
                   rotations, monitor_vars>>

NextBackoff ==
    \/ \E retry_count \in 0..MaxRetriesBound, jitter \in Jitters :
          BackoffEnter(retry_count, jitter)
    \/ BackoffSleepDone

SpecBackoff == Init /\ [][NextBackoff]_vars

\* The base the claim names for retry_count, written out.
ExpectedBase(retry_count) ==
    CASE retry_count = 1 -> 60
      [] retry_count = 2 -> 120
      [] retry_count = 3 -> 240
      [] OTHER -> 300

\* A back-off was slept (or is being slept).
Slept == backoff.pc # "idle" /\ backoff.retry_count >= 1

\* What C25 and its amendment share: no back-off for retry_count = 0; for
\* retry_count >= 1 the base is min(300, 30 * 2^retry_count), at most 300 and
\* not below the base of retry_count - 1, and the jitter is in [10, 30).
BackoffShape ==
    /\ (backoff.pc # "idle" /\ backoff.retry_count = 0) =>
          (backoff.pc = "pacing" /\ backoff.delay = 0)
    /\ Slept =>
          /\ backoff.base = ExpectedBase(backoff.retry_count)
          /\ backoff.base <= 300
          /\ (backoff.retry_count >= 2 =>
                ExpectedBase(backoff.retry_count - 1) <= backoff.base)
          /\ backoff.delay - backoff.base \in 10..29

\* C25 as claimed: the shape above, and for every retry_count >= 1 some jitter
\* makes base plus jitter exceed 300 seconds.
C25_AsClaimed ==
    /\ BackoffShape
    /\ Slept => \E jitter \in 10..29 : backoff.base + jitter > 300

\* C25, amended: the shape above, and base plus jitter exceeds 300 seconds
\* exactly when retry_count >= 4, then for every jitter; for retry_count 1..3
\* it is at most 269 seconds.
C25_BackoffDelay ==
    /\ BackoffShape
    /\ Slept =>
          IF backoff.retry_count >= 4
          THEN backoff.delay >= 310
          ELSE backoff.delay <= 269

\* The shortest back-off of a capped base has been slept.
C25_Witness ==
    /\ backoff.pc = "pacing"
    /\ backoff.retry_count = 4
    /\ backoff.base = 300
    /\ backoff.delay = 310

(***************************************************************************)
(* InstagramAPI.download_profile_picture, one step per suspension.         *)
(***************************************************************************)
Images == {"img1", "img2"}

\* How a session.get of the picture can end: a 200 with the picture, another
\* status, or an exception (timeout, connection failure).
DownloadAnswers ==
    {[kind |-> "http", status |-> 200, content |-> c] : c \in Images}
    \cup {[kind |-> "http", status |-> st, content |-> "none"] : st \in {403, 404}}
    \cup {[kind |-> "raise", status |-> 0, content |-> "none"]}

\* The end of a loop iteration that did not return and did not raise: the
\* next iteration sends its direct request at once; after the second
\* iteration the function returns None.
NextAttempt(d) ==
    IF d.attempt < 2
    THEN [d EXCEPT !.attempt = @ + 1, !.pc = "direct", !.log = Append(@, "direct")]
    ELSE [d EXCEPT !.pc = "returned", !.result = None]

\* The frame after the request in flight ended with `ans`.
DownloadNext(d, proxy, ans) ==
    IF ans.kind = "raise"
    THEN \* `except Exception`: sleep 1 s before the second iteration
         IF d.attempt < 2
         THEN [d EXCEPT !.pc = "pause_retry", !.log = Append(@, "pause")]
         ELSE [d EXCEPT !.pc = "returned", !.result = None]
    ELSE IF ans.status = 200
    THEN [d EXCEPT !.pc = "returned", !.result = Some(ans.content)]
    ELSE IF d.pc = "direct" /\ d.attempt = 1 /\ ProxyConfigured(proxy)
    THEN [d EXCEPT !.pc = "pause_proxy", !.log = Append(@, "pause")]
    ELSE NextAttempt(d)

\* download_profile_picture is called: a random impersonation is chosen, its
\* session looked up, and the first direct request sent.
DownloadEnter(key) ==
    /\ download.pc = "idle"
    /\ sessions' = GetSession(sessions, key)
    /\ handles' = NewSession(handles, sessions, key)
    /\ download' = [IdleDownload EXCEPT !.pc = "direct", !.attempt = 1,
                                        !.log = <<"direct">>]
    /\ UNCHANGED <<proxy_url, generate_screenshots, cred, device_cache, closing,
                   identity_vars, call, backoff, fetchers, rotations,
                   monitor_vars>>

\* The request in flight ends.
DownloadAnswer(ans) ==
    /\ download.pc \in {"direct", "proxy"}
    /\ download' = DownloadNext([download EXCEPT !.answers = Append(@, ans)],
                                proxy_url, ans)
    /\ UNCHANGED <<proxy_url, generate_screenshots, cred, sessions, device_cache,
                   handles, closing, identity_vars, call, backoff, fetchers,
                   rotations, monitor_vars>>

\* `await asyncio.sleep(1)` ends: the proxy request is sent, or the second
\* iteration sends its direct request.
DownloadPauseDone ==
    /\ download.pc \in {"pause_proxy", "pause_retry"}
    /\ download' = IF download.pc = "pause_proxy"
                   THEN [download EXCEPT !.pc = "proxy", !.log = Append(@, "proxy")]
                   ELSE NextAttempt(download)
    /\ UNCHANGED <<proxy_url, generate_screenshots, cred, sessions, device_cache,
                   handles, closing, identity_vars, call, backoff, fetchers,
                   rotations, monitor_vars>>

NextDownload ==
    \/ \E key \in Profiles : DownloadEnter(key)
    \/ \E ans \in DownloadAnswers : DownloadAnswer(ans)
    \/ DownloadPauseDone

SpecDownload == Init /\ [][NextDownload]_vars

\* The first direct request ended, and not with a 200.
FirstDirectFailed ==
    /\ download.answers # << >>
    /\ (download.answers[1].kind = "raise" \/ download.answers[1].status # 200)

ProxyRequests == {i \in 1..Len(download.log) : download.log[i] = "proxy"}
Got200 ==
    {i \in 1..Len(download.answers) :
        download.answers[i].kind = "http" /\ download.answers[i].status = 200}

\* C24 as claimed: the first request is direct; when it returned non-200 or
\* failed and a proxy is configured, a 1-second pause and then one request
\* through the proxy follow, and no other proxy request is made; the loop makes
\* two attempts; the body of the first 200 is returned, and None when no
\* request got a 200.
C24_AsClaimed ==
    /\ download.log # << >> => download.log[1] = "direct"
    /\ download.attempt <= 2
    /\ Cardinality(ProxyRequests) <= 1
    /\ (FirstDirectFailed /\ ProxyConfigured(proxy_url)) =>
          /\ download.log[2] = "pause"
          /\ Len(download.log) >= 3 => download.log[3] = "proxy"
          /\ download.pc = "returned" => Cardinality(ProxyRequests) = 1
    /\ ~(FirstDirectFailed /\ ProxyConfigured(proxy_url)) => ProxyRequests = {}
    /\ download.pc = "returned" =>
          download.result =
              IF Got200 = {} THEN None
              ELSE Some(download.answers[CHOOSE i \in Got200 :
                                           \A j \in Got200 : i <= j].content)

(***************************************************************************)
(* The service under fair scheduling. The event loop runs every task that  *)
(* is ready: each sleep of a task ends, each request it awaits is answered *)
(* or times out (timeout=30), and each awaited call of its recovery        *)
(* handling returns or raises; so a step of a task that stays possible is  *)
(* eventually taken. Nothing obliges the operator to call the service.     *)
(***************************************************************************)
TaskStep(t) ==
    /\ t \in TaskIds
    /\ \/ MonitorLoop(t)
       \/ TaskBackoffDone(t)
       \/ TaskPacingDone(t)
       \/ \E r \in Responses : TaskResponse(t, r)
       \/ TaskAuthJitterDone(t)
       \/ \E res \in {"bytes", "none", "ok", "raise"} : NotifyDone(t, res)

FairSpec == Spec /\ \A t \in 1..MaxTasks : WF_vars(TaskStep(t))

\* The task exists, has not ended, and its account is not in the store; the
\* task has not removed it (a task removes its account as it ends).
Unlisted(t) ==
    /\ t \in TaskIds
    /\ tasks[t].pc \notin EndedPcs
    /\ tasks[t].username \notin store

\* C21 as claimed: under fair scheduling, a task whose account has been
\* removed from the store by someone else ends (unless the account is listed
\* again before its loop check), and does not invoke recovery handling once
\* the account is gone; a task that has invoked recovery
\* handling (its poll returned a payload with a user record) ends, and when
\* its recovery handling ends the account is in neither store nor registry.
C21_AsClaimed ==
    /\ [][\A t \in TaskIds :
            /\ (Unlisted(t) /\ ~tasks[t].invoked) => ~tasks'[t].invoked
            /\ (tasks[t].pc # "recovered" /\ tasks'[t].pc = "recovered") =>
                  /\ tasks[t].username \notin store'
                  /\ tasks[t].username \notin DOMAIN active_monitors']_vars
    /\ \A t \in 1..MaxTasks :
          (Unlisted(t) /\ ~tasks[t].invoked) ~>
             (t \in TaskIds /\ (tasks[t].pc \in {"stopped", "cancelled"}
                                 \/ tasks[t].username \in store))
    /\ \A t \in 1..MaxTasks :
          (t \in TaskIds /\ tasks[t].invoked) ~>
             (t \in TaskIds /\ tasks[t].pc \in {"recovered", "cancelled"})

(***************************************************************************)
(* Several fetch_profile calls running concurrently on the one             *)
(* InstagramAPI the monitor tasks share (self.api.fetch_profile(username)  *)
(* in monitor_account): each call suspends at its sleeps and at its        *)
(* request, and the others run meanwhile. `rotations` counts the           *)
(* rotate_session() calls made so far. A frame keeps                       *)
(*   cred_sent   the credential get_current_session() returned for the     *)
(*               request last sent                                         *)
(*   gen_sent    the value of `rotations` at that read                     *)
(***************************************************************************)
NewFetcher(username) ==
    [pc |-> FetchEntry(0), username |-> username, retry_count |-> 0,
     cred_sent |-> None, gen_sent |-> 0, outcome |-> <<None, None>>]

\* A task calls self.api.fetch_profile(username).
FetcherStart(username) ==
    /\ Len(fetchers) < NumFetchers
    /\ fetchers' = Append(fetchers, NewFetcher(username))
    /\ UNCHANGED <<proxy_url, generate_screenshots, cred, sessions, device_cache,
                   handles, closing, identity_vars, call, backoff, download,
                   rotations, monitor_vars>>

\* `await asyncio.sleep(delay)` of the back-off ends.
FetcherBackoffDone(i) ==
    /\ fetchers[i].pc = "backoff"
    /\ fetchers' = [fetchers EXCEPT ![i].pc = "pacing"]
    /\ UNCHANGED <<proxy_url, generate_screenshots, cred, sessions, device_cache,
                   handles, closing, identity_vars, call, backoff, download,
                   rotations, monitor_vars>>

\* The pacing sleep ends: fail fast without a proxy, else read the current
\* credential, build the headers, look the session up and send the request.
FetcherPacingDone(i) ==
    /\ fetchers[i].pc = "pacing"
    /\ IF ~ProxyConfigured(proxy_url)
       THEN /\ fetchers' = [fetchers EXCEPT ![i].pc = "returned",
                                            ![i].outcome = <<None, None>>]
            /\ UNCHANGED <<sessions, device_cache, handles>>
       ELSE LET key == Impersonation(fetchers[i].retry_count) IN
            /\ fetchers' = [fetchers EXCEPT ![i].pc = "request",
                                            ![i].cred_sent = Some(cred),
                                            ![i].gen_sent = rotations]
            /\ sessions' = GetSession(sessions, key)
            /\ handles' = NewSession(handles, sessions, key)
            /\ device_cache' =
                  BuildDeviceProfile(device_cache, fetchers[i].username).cache
    /\ UNCHANGED <<proxy_url, generate_screenshots, cred, closing, identity_vars,
                   call, backoff, download, rotations, monitor_vars>>

\* The request ends with response r (or fails): classify, rotate, then
\* return, sleep the auth jitter, or enter the next attempt.
FetcherResponse(i, r) ==
    /\ fetchers[i].pc = "request"
    /\ LET f == fetchers[i]
           c == FetchClassify(f.username, f.retry_count, DEFAULT_MAX_RETRIES, r)
       IN
       /\ cred' = IF c.rotate THEN RotateSession(cred) ELSE cred
       /\ rotations' = IF c.rotate THEN rotations + 1 ELSE rotations
       /\ fetchers' =
             [fetchers EXCEPT ![i] =
                CASE c.next = "return" ->
                       [f EXCEPT !.pc = "returned", !.outcome = c.outcome]
                  [] c.next = "authjitter" -> [f EXCEPT !.pc = "authjitter"]
                  [] OTHER -> [f EXCEPT !.retry_count = @ + 1,
                                        !.pc = FetchEntry(f.retry_count + 1)]]
    /\ UNCHANGED <<proxy_url, generate_screenshots, sessions, device_cache,
                   handles, closing, identity_vars, call, backoff, download,
                   monitor_vars>>

\* The `[1,5)` sleep after a 400/401 ends: enter the next attempt.
FetcherAuthJitterDone(i) ==
    /\ fetchers[i].pc = "authjitter"
    /\ fetchers' = [fetchers EXCEPT ![i].retry_count = @ + 1,
                                    ![i].pc = FetchEntry(fetchers[i].retry_count + 1)]
    /\ UNCHANGED <<proxy_url, generate_screenshots, cred, sessions, device_cache,
                   handles, closing, identity_vars, call, backoff, download,
                   rotations, monitor_vars>>

NextCred ==
    \/ \E username \in Names : FetcherStart(username)
    \/ \E i \in 1..Len(fetchers) : FetcherBackoffDone(i)
    \/ \E i \in 1..Len(fetchers) : FetcherPacingDone(i)
    \/ \E i \in 1..Len(fetchers), r \in Responses : FetcherResponse(i, r)
    \/ \E i \in 1..Len(fetchers) : FetcherAuthJitterDone(i)

SpecCred == Init /\ [][NextCred]_vars

RotatingResponse(r) == r.kind = "http" /\ r.status \in {429, 400, 401}

\* A step rotates exactly when it is the arrival of a 429, 400 or 401, and
\* then once; every request carries the credential current when it is sent.
RotationPolicy ==
    /\ rotations' - rotations =
          IF \E i \in 1..Len(fetchers), r \in Responses :
                RotatingResponse(r) /\ FetcherResponse(i, r)
          THEN 1 ELSE 0
    /\ cred' = IF rotations' = rotations THEN cred ELSE RotateSession(cred)
    /\ \A i \in 1..Len(fetchers) :
          (FetcherPacingDone(i) /\ ProxyConfigured(proxy_url)) =>
             /\ fetchers'[i].cred_sent = Some(cred)
             /\ fetchers'[i].gen_sent = rotations

\* The response that makes a step rotate answers a request sent with the
\* credential still current: no rotation has happened since it was read.
NoStaleRotation ==
    \A i \in 1..Len(fetchers) :
       (fetchers[i].pc = "request" /\ fetchers'[i].pc # "request"
          /\ rotations' # rotations) => fetchers[i].gen_sent = rotations

\* C23 as claimed: a rotation is triggered only by a 429, 400 or 401
\* response and exactly once per such response; each attempt reads the
\* current credential afresh; and with several fetches running concurrently
\* no rotation is triggered by a response to a request sent with a credential
\* that another fetch has already rotated away.
C23_AsClaimed == [][RotationPolicy /\ NoStaleRotation]_vars

\* The part of C23 about one fetch: which responses rotate, and the fresh read.
C23_PolicyOnly == [][RotationPolicy]_vars

====
